---- MODULE Spec2Model ----
(***************************************************************************)
(* Model of scripts/package_skill.py: the skill validator and packager.    *)
(* Text is modelled as TLA+ strings (character sequences), YAML values as  *)
(* tagged records, the file system as a set of entries below a resolved    *)
(* path.  Each function of the script is an operator computed the way the  *)
(* code computes it; each specification below runs one entry point.        *)
(***************************************************************************)
EXTENDS Naturals, Sequences, FiniteSets, TLC

VARIABLES
    pc,              \* position of the run
    name,            \* argument `name` of validate_skill_name (a Python value)
    directory_name,  \* argument `directory_name` (a string)
    description,     \* argument `description` of validate_description
    content,         \* text of SKILL.md
    loaded,          \* what yaml.safe_load returned for the header text
    skill_path,      \* resolved path of the skill directory (its parts)
    fs,              \* file system entries below skill_path
    validate_only,   \* the --validate-only flag
    result,          \* what the function under check returned or raised
    exit_status,     \* exit status of main ("running" until it ends)
    archive          \* members of the written archive ("none" if not written)

vars == <<pc, name, directory_name, description, content, loaded, skill_path,
          fs, validate_only, result, exit_status, archive>>

-----------------------------------------------------------------------------
(* Bounds of the model.                                                    *)

MaxNameLen == 3
MaxLines == 3
MaxPad == 2

-----------------------------------------------------------------------------
(* Strings.                                                                *)

Char(s, i) == SubSeq(s, i, i)

RECURSIVE Rep(_, _)
Rep(s, n) ==
    IF n = 0 THEN ""
    ELSE IF n % 2 = 0 THEN LET h == Rep(s, n \div 2) IN h \o h
    ELSE s \o Rep(s, n - 1)

RECURSIVE Strs(_, _)
Strs(chars, n) ==
    IF n = 0 THEN {""}
    ELSE LET p == Strs(chars, n - 1) IN p \cup {s \o c : s \in p, c \in chars}

StartsWith(s, p) == Len(s) >= Len(p) /\ SubSeq(s, 1, Len(p)) = p

\* Python's `p in s` on strings
Contains(s, p) ==
    \E i \in 1..(Len(s) + 1) :
        i + Len(p) - 1 <= Len(s) /\ SubSeq(s, i, i + Len(p) - 1) = p

UpperLetters == "ABCDEFGHIJKLMNOPQRSTUVWXYZ"
LowerLetters == "abcdefghijklmnopqrstuvwxyz"
Digits == "0123456789"

CharsOf(s) == {Char(s, i) : i \in 1..Len(s)}

LowerChar(c) ==
    IF \E i \in 1..Len(UpperLetters) : Char(UpperLetters, i) = c
    THEN Char(LowerLetters, CHOOSE i \in 1..Len(UpperLetters) : Char(UpperLetters, i) = c)
    ELSE c

\* str.lower(), computed per distinct character and reassembled by halves
RECURSIVE LowerRange(_, _, _)
LowerRange(s, lo, hi) ==
    IF lo > hi THEN ""
    ELSE IF lo = hi THEN LowerChar(Char(s, lo))
    ELSE LET mid == (lo + hi) \div 2
         IN LowerRange(s, lo, mid) \o LowerRange(s, mid + 1, hi)

Lower(s) == LowerRange(s, 1, Len(s))

\* \s of Python's re on str, for the characters the model uses
IsSpace(c) == c \in {" ", "\n", "\t"}

-----------------------------------------------------------------------------
(* Python values, as yaml.safe_load produces them.                         *)

PyStr(s) == [t |-> "str", s |-> s, n |-> 0]
PyInt(n) == [t |-> "int", s |-> "", n |-> n]
PyBool(b) == [t |-> "bool", s |-> "", n |-> IF b THEN 1 ELSE 0]
PyNone == [t |-> "none", s |-> "", n |-> 0]
PyList(n) == [t |-> "list", s |-> "", n |-> n]
PyDict(n) == [t |-> "dict", s |-> "", n |-> n]

\* truth value of `not v` negated
Truthy(v) ==
    CASE v.t = "str" -> Len(v.s) > 0
      [] v.t = "none" -> FALSE
      [] OTHER -> v.n # 0

\* types for which len() does not raise TypeError
HasLen(v) == v.t \in {"str", "list", "dict"}

PyLen(v) == IF v.t = "str" THEN Len(v.s) ELSE v.n

\* len(str(v))
RECURSIVE DigitCount(_)
DigitCount(n) == IF n < 10 THEN 1 ELSE 1 + DigitCount(n \div 10)

StrLen(v) ==
    CASE v.t = "str" -> Len(v.s)
      [] v.t = "int" -> DigitCount(v.n)
      [] v.t = "bool" -> IF v.n = 1 THEN 4 ELSE 5
      [] v.t = "none" -> 4
      [] OTHER -> 2 + 3 * v.n

-----------------------------------------------------------------------------
(* Findings and results.                                                   *)

ValidationError(message, severity) == [message |-> message, severity |-> severity]

Returned(errors) == [raised |-> "none", errors |-> errors]
Raised(exc) == [raised |-> exc, errors |-> <<>>]
NoResult == [raised |-> "pending", errors |-> <<>>]

Messages(r) == {r.errors[i].message : i \in 1..Len(r.errors)}
CountOf(r, m) == Cardinality({i \in 1..Len(r.errors) : r.errors[i].message = m})

-----------------------------------------------------------------------------
(* validate_skill_name                                                     *)

NameLimit == 64

LowerAlnum == CharsOf(LowerLetters) \cup CharsOf(Digits)

\* the language of [a-z0-9]+(-[a-z0-9]+)* : the whole string is in it
FullMatch(s) ==
    /\ Len(s) > 0
    /\ \A i \in 1..Len(s) : Char(s, i) \in LowerAlnum \cup {"-"}
    /\ Char(s, 1) # "-"
    /\ Char(s, Len(s)) # "-"
    /\ \A i \in 1..(Len(s) - 1) : ~(Char(s, i) = "-" /\ Char(s, i + 1) = "-")

\* re.match(r'^[a-z0-9]+(-[a-z0-9]+)*$', s): without re.MULTILINE, `$` matches
\* at the end of the string and also just before a newline that ends it
ReMatchName(s) ==
    \/ FullMatch(s)
    \/ /\ Len(s) >= 1
       /\ Char(s, Len(s)) = "\n"
       /\ FullMatch(SubSeq(s, 1, Len(s) - 1))

\* a comparison that folds the case of the name first
NameDiffersFolded(nm, dirname) == Lower(nm.s) # dirname

\* name != directory_name
NameDiffers(nm, dirname) == nm.s # dirname

validate_skill_name(nm, dirname) ==
    IF ~Truthy(nm)
    THEN Returned(<<ValidationError("name field is required", "error")>>)
    ELSE IF ~HasLen(nm) THEN Raised("TypeError")
    ELSE IF nm.t # "str" THEN Raised("TypeError")
    ELSE LET e1 == IF PyLen(nm) > NameLimit
                   THEN <<ValidationError("name must be 64 characters or less", "error")>>
                   ELSE <<>>
             e2 == IF ~ReMatchName(nm.s)
                   THEN <<ValidationError("name must be lowercase letters, numbers, and hyphens only", "error")>>
                   ELSE <<>>
             e3 == IF NameDiffers(nm, dirname)
                   THEN <<ValidationError("name must match directory name", "error")>>
                   ELSE <<>>
         IN Returned(e1 \o e2 \o e3)

-----------------------------------------------------------------------------
(* validate_description                                                    *)

DescriptionLimit == 1024
ShortDescription == 50

when_indicators == {"use when", "use for", "when the user", "when you need", "triggers when"}

\* the boundary taken inclusive
TooShortInclusive(d) == PyLen(d) <= ShortDescription

\* len(description) < 50
TooShort(d) == PyLen(d) < ShortDescription

validate_description(d) ==
    IF ~Truthy(d)
    THEN Returned(<<ValidationError("description field is required", "error")>>)
    ELSE IF ~HasLen(d) THEN Raised("TypeError")
    ELSE IF d.t # "str" THEN Raised("AttributeError")
    ELSE LET desc_lower == Lower(d.s)
             e1 == IF PyLen(d) > DescriptionLimit
                   THEN <<ValidationError("description must be 1024 characters or less", "error")>>
                   ELSE <<>>
             e2 == IF TooShort(d)
                   THEN <<ValidationError("description is very short", "warning")>>
                   ELSE <<>>
             e3 == IF Contains(desc_lower, "todo")
                   THEN <<ValidationError("description contains TODO placeholder", "error")>>
                   ELSE <<>>
             has_when == \E indicator \in when_indicators : Contains(desc_lower, indicator)
             e4 == IF ~has_when
                   THEN <<ValidationError("description should explain WHEN to use the skill", "warning")>>
                   ELSE <<>>
         IN Returned(e1 \o e2 \o e3 \o e4)

-----------------------------------------------------------------------------
(* validate_frontmatter                                                    *)

CompatibilityLimit == 500

\* re.search(r'\n---\s*\n', rest) matches at (1-based) position i of rest
EndMatchAt(rest, i) ==
    /\ i + 3 <= Len(rest)
    /\ SubSeq(rest, i, i + 3) = "\n---"
    /\ \E j \in (i + 4)..Len(rest) :
           /\ Char(rest, j) = "\n"
           /\ \A k \in (i + 4)..(j - 1) : IsSpace(Char(rest, k))

\* content[3:]
AfterOpening(text) == SubSeq(text, 4, Len(text))

HasEndMatch(text) ==
    \E i \in 1..Len(AfterOpening(text)) : EndMatchAt(AfterOpening(text), i)

\* end_match.start(), 0-based: re.search returns the leftmost match
EndMatchStart(text) ==
    LET rest == AfterOpening(text)
        i == CHOOSE i \in 1..Len(rest) :
                 /\ EndMatchAt(rest, i)
                 /\ \A h \in 1..(i - 1) : ~EndMatchAt(rest, h)
    IN i - 1

\* content[3:end_match.start() + 3]
frontmatter_text(text) == SubSeq(text, 4, EndMatchStart(text) + 3)

\* A missing key of the decoded mapping
Absent == [t |-> "absent", s |-> "", n |-> 0]

YamlError == [kind |-> "YAMLError", v |-> PyNone,
              d |-> [name |-> Absent, description |-> Absent, compatibility |-> Absent]]
YamlValue(v) == [kind |-> "value", v |-> v,
                 d |-> [name |-> Absent, description |-> Absent, compatibility |-> Absent]]
YamlDict(nm, de, co) == [kind |-> "dict", v |-> PyNone,
                         d |-> [name |-> nm, description |-> de, compatibility |-> co]]
NotLoaded == [kind |-> "not loaded", v |-> PyNone,
              d |-> [name |-> Absent, description |-> Absent, compatibility |-> Absent]]

\* frontmatter.get(key, "")
Get(v) == IF v = Absent THEN PyStr("") ELSE v

\* whether validate_frontmatter reaches yaml.safe_load on this text
ReachesYaml(text) == StartsWith(text, "---") /\ HasEndMatch(text)

\* an empty document taken for an empty mapping
IsMappingOrEmpty(yaml) == yaml.kind = "dict" \/ yaml = YamlValue(PyNone)

\* isinstance(frontmatter, dict)
IsMapping(yaml) == yaml.kind = "dict"

validate_frontmatter(text, dirname, yaml) ==
    IF ~StartsWith(text, "---")
    THEN Returned(<<ValidationError("SKILL.md must start with YAML frontmatter (---)", "error")>>)
    ELSE IF ~HasEndMatch(text)
    THEN Returned(<<ValidationError("SKILL.md frontmatter must be closed with ---", "error")>>)
    ELSE IF yaml.kind = "YAMLError"
    THEN Returned(<<ValidationError("Invalid YAML in frontmatter", "error")>>)
    ELSE IF ~IsMapping(yaml)
    THEN Returned(<<ValidationError("Frontmatter must be a YAML dictionary", "error")>>)
    ELSE LET n == validate_skill_name(Get(yaml.d.name), dirname)
             d == validate_description(Get(yaml.d.description))
             c == IF yaml.d.compatibility # Absent
                     /\ StrLen(yaml.d.compatibility) > CompatibilityLimit
                  THEN <<ValidationError("compatibility must be 500 characters or less", "error")>>
                  ELSE <<>>
         IN IF n.raised # "none" THEN n
            ELSE IF d.raised # "none" THEN d
            ELSE Returned(n.errors \o d.errors \o c)

-----------------------------------------------------------------------------
(* The file system below the skill directory.  An entry is                 *)
(* [path |-> parts relative to skill_path, kind |-> "file" or "dir",       *)
(*  x |-> os.access(entry, os.X_OK)].                                      *)

Entry(path, kind, x) == [path |-> path, kind |-> kind, x |-> x]

\* (skill_path / filename).exists()
ExistsAtRoot(tree, filename) == \E e \in tree : e.path = <<filename>>
\* (skill_path / filename).is_dir()
IsDirAtRoot(tree, filename) == \E e \in tree : e.path = <<filename>> /\ e.kind = "dir"

EndsWith(s, suffix) ==
    Len(s) >= Len(suffix) /\ SubSeq(s, Len(s) - Len(suffix) + 1, Len(s)) = suffix

\* A sequence listing the elements of a finite set, in the order the
\* directory listing happens to give
RECURSIVE Listing(_)
Listing(S) ==
    IF S = {} THEN <<>>
    ELSE LET e == CHOOSE e \in S : TRUE IN <<e>> \o Listing(S \ {e})

-----------------------------------------------------------------------------
(* validate_skill_md                                                       *)

LineLimit == 500

\* len(content.split('\n'))
SplitCount(text) == Cardinality({i \in 1..Len(text) : Char(text, i) = "\n"}) + 1

validate_skill_md(tree, dirname, text, yaml) ==
    IF ~ExistsAtRoot(tree, "SKILL.md")
    THEN Returned(<<ValidationError("SKILL.md file is required", "error")>>)
    ELSE IF IsDirAtRoot(tree, "SKILL.md") THEN Raised("IsADirectoryError")
    ELSE LET fm == validate_frontmatter(text, dirname, yaml)
             w1 == IF SplitCount(text) > LineLimit
                   THEN <<ValidationError("SKILL.md should be under 500 lines", "warning")>>
                   ELSE <<>>
             w2 == IF Contains(text, "<!-- TODO") \/ Contains(text, "# TODO")
                   THEN <<ValidationError("SKILL.md contains TODO placeholders that should be filled in", "warning")>>
                   ELSE <<>>
         IN IF fm.raised # "none" THEN fm
            ELSE Returned(fm.errors \o w1 \o w2)

-----------------------------------------------------------------------------
(* validate_structure                                                      *)

disallowed == <<"README.md", "CHANGELOG.md", "INSTALLATION_GUIDE.md", "QUICK_REFERENCE.md">>
resource_dirs == <<"scripts", "references", "assets">>

RECURSIVE DisallowedFrom(_, _)
DisallowedFrom(tree, i) ==
    IF i > Len(disallowed) THEN <<>>
    ELSE (IF ExistsAtRoot(tree, disallowed[i])
          THEN <<ValidationError("'" \o disallowed[i] \o "' should not be included in a skill", "error")>>
          ELSE <<>>) \o DisallowedFrom(tree, i + 1)

RECURSIVE ResourceFrom(_, _)
ResourceFrom(tree, i) ==
    IF i > Len(resource_dirs) THEN <<>>
    ELSE (IF ExistsAtRoot(tree, resource_dirs[i]) /\ ~IsDirAtRoot(tree, resource_dirs[i])
          THEN <<ValidationError("'" \o resource_dirs[i] \o "' must be a directory, not a file", "error")>>
          ELSE <<>>) \o ResourceFrom(tree, i + 1)

\* scripts_dir.glob("*.py") filtered by `not os.access(script, os.X_OK)`
NonExecutableScripts(tree) ==
    {e \in tree : /\ Len(e.path) = 2
                  /\ e.path[1] = "scripts"
                  /\ EndsWith(e.path[2], ".py")
                  /\ ~e.x}

RECURSIVE ScriptWarnings(_)
ScriptWarnings(scripts) ==
    IF scripts = <<>> THEN <<>>
    ELSE <<ValidationError("Script '" \o Head(scripts).path[2] \o "' is not executable", "warning")>>
         \o ScriptWarnings(Tail(scripts))

validate_structure(tree) ==
    DisallowedFrom(tree, 1)
    \o ResourceFrom(tree, 1)
    \o (IF ExistsAtRoot(tree, "scripts")
        THEN ScriptWarnings(Listing(NonExecutableScripts(tree)))
        ELSE <<>>)

-----------------------------------------------------------------------------
(* validate_skill                                                          *)

\* skill_path.name
PathName(path) == path.parts[Len(path.parts)]

\* validate_skill stopping at a missing manifest
validate_skill_stopping(path, tree, text, yaml) ==
    IF path.kind = "missing"
    THEN Returned(<<ValidationError("Skill path does not exist", "error")>>)
    ELSE IF path.kind # "dir"
    THEN Returned(<<ValidationError("Skill path must be a directory", "error")>>)
    ELSE LET md == validate_skill_md(tree, PathName(path), text, yaml)
         IN IF md.raised # "none" \/ ~ExistsAtRoot(tree, "SKILL.md") THEN md
            ELSE Returned(md.errors \o validate_structure(tree))

validate_skill(path, tree, text, yaml) ==
    IF path.kind = "missing"
    THEN Returned(<<ValidationError("Skill path does not exist", "error")>>)
    ELSE IF path.kind # "dir"
    THEN Returned(<<ValidationError("Skill path must be a directory", "error")>>)
    ELSE LET md == validate_skill_md(tree, PathName(path), text, yaml)
         IN IF md.raised # "none" THEN md
            ELSE Returned(md.errors \o validate_structure(tree))

-----------------------------------------------------------------------------
(* package_skill                                                           *)

\* any(part.startswith('.') or part == '__pycache__' for part in file_path.parts)
Skipped(parts) ==
    \E i \in 1..Len(parts) : StartsWith(parts[i], ".") \/ parts[i] = "__pycache__"

\* file_path.relative_to(skill_path.parent)
ArcName(path, e) == <<PathName(path)>> \o e.path

package_skill(path, tree) ==
    [file |-> PathName(path) \o ".skill",
     members |-> {ArcName(path, e) : e \in {f \in tree : /\ f.kind = "file"
                                                         /\ ~Skipped(path.parts \o f.path)}}]

NoArchive == [file |-> "none", members |-> {}]

-----------------------------------------------------------------------------
(* Values of the variables an entry point does not use.                    *)

NoPath == [parts |-> <<"/">>, kind |-> "missing"]

UnusedName == name = PyNone /\ directory_name = ""
UnusedDescription == description = PyNone
UnusedManifest == content = "" /\ loaded = NotLoaded
UnusedTree == skill_path = NoPath /\ fs = {}
UnusedMain == validate_only = FALSE /\ exit_status = "running" /\ archive = NoArchive

-----------------------------------------------------------------------------
(* SpecName: validate_skill_name applied to a name and a directory name.   *)

NameChars == {"a", "1", "-", "A", "_", "\n"}

NameInputs ==
    Strs(NameChars, MaxNameLen)
    \cup {"My_Skill", "my-skill", "my-skill\n", "my--skill",
          Rep("a", NameLimit), Rep("a", NameLimit + 1), Rep("A", NameLimit + 1)}

NonStrings == {PyNone, PyInt(0), PyInt(123), PyBool(TRUE), PyBool(FALSE),
               PyList(0), PyList(2), PyDict(0), PyDict(1)}

DirNames == {"a", "a-1", "My_Skill", "my-skill"}

InitName ==
    /\ pc = "validate_skill_name"
    /\ name \in {PyStr(s) : s \in NameInputs} \cup NonStrings
    /\ directory_name \in DirNames
    /\ result = NoResult
    /\ UnusedDescription /\ UnusedManifest /\ UnusedTree /\ UnusedMain

CallValidateSkillName ==
    /\ pc = "validate_skill_name"
    /\ result' = validate_skill_name(name, directory_name)
    /\ pc' = "returned"
    /\ UNCHANGED <<name, directory_name, description, content, loaded, skill_path,
                   fs, validate_only, exit_status, archive>>

NextName == CallValidateSkillName

SpecName == InitName /\ [][NextName]_vars

GrammarMessage == "name must be lowercase letters, numbers, and hyphens only"

\* C5: every identifier that violates the grammar ^[a-z0-9]+(-[a-z0-9]+)*$
\* gets exactly one grammar finding from validate_skill_name, whatever the
\* directory name.  Stated here for the non-empty identifiers, the ones the
\* code hands to its regular expression (the empty one is answered by the
\* required-field finding alone).
C5_OneGrammarFinding ==
    (pc = "returned" /\ name.t = "str" /\ Len(name.s) > 0 /\ ~FullMatch(name.s))
        => (result.raised = "none" /\ CountOf(result, GrammarMessage) = 1)

-----------------------------------------------------------------------------
(* SpecDesc: validate_description applied to a description.                *)

Pad(prefix, n) ==
    IF Len(prefix) >= n THEN prefix ELSE prefix \o Rep("x", n - Len(prefix))

DescPrefixes == {"", "todo", "TODO", "A ToDo", "Use when", "use for", "When The User",
                 "when you need", "triggers when", "todo: use when", "tod", "usewhen"}

DescLengths ==
    0..MaxPad
    \cup (ShortDescription - MaxPad)..(ShortDescription + MaxPad)
    \cup (DescriptionLimit - 1)..(DescriptionLimit + 1)

DescInputs == {Pad(p, n) : p \in DescPrefixes, n \in DescLengths}

InitDesc ==
    /\ pc = "validate_description"
    /\ description \in {PyStr(s) : s \in DescInputs} \cup NonStrings
    /\ result = NoResult
    /\ UnusedName /\ UnusedManifest /\ UnusedTree /\ UnusedMain

CallValidateDescription ==
    /\ pc = "validate_description"
    /\ result' = validate_description(description)
    /\ pc' = "returned"
    /\ UNCHANGED <<name, directory_name, description, content, loaded, skill_path,
                   fs, validate_only, exit_status, archive>>

NextDesc == CallValidateDescription

SpecDesc == InitDesc /\ [][NextDesc]_vars

ShortMessage == "description is very short"

-----------------------------------------------------------------------------
(* Manifest texts and decoded headers the entry points are run on.         *)

LineKinds == {"---", "--- ", "k: v", "# TODO"}

\* '\n'.join(lines), plus a final newline when nl
RECURSIVE Join(_)
Join(lines) ==
    IF lines = <<>> THEN ""
    ELSE IF Len(lines) = 1 THEN lines[1]
    ELSE lines[1] \o "\n" \o Join(Tail(lines))

RECURSIVE LineSeqs(_)
LineSeqs(n) ==
    IF n = 0 THEN {<<>>}
    ELSE LET p == LineSeqs(n - 1)
         IN p \cup {Append(l, k) : l \in p, k \in LineKinds}

ShortTexts ==
    {Join(l) : l \in LineSeqs(MaxLines)}
    \cup {Join(l) \o "\n" : l \in LineSeqs(MaxLines) \ {<<>>}}

GoodDescription == Pad("Use when X happens, does Y and Z", ShortDescription)

NameValues == {Absent, PyStr(""), PyStr("a"), PyStr("a\n"), PyStr("My_Skill"),
               PyStr(Rep("A", NameLimit + 1)), PyNone, PyInt(123), PyBool(TRUE),
               PyList(2), PyDict(1)}

DescriptionValues == {Absent, PyStr(""), PyStr(GoodDescription), PyStr("todo"),
                      PyStr(Rep("x", DescriptionLimit + 1)), PyNone, PyInt(5),
                      PyList(1)}

CompatibilityValues == {Absent, PyStr("python3"), PyStr(Rep("x", CompatibilityLimit + 1)),
                        PyInt(7)}

YamlDicts ==
    {YamlDict(n, d, c) : n \in NameValues, d \in DescriptionValues,
                         c \in CompatibilityValues}

YamlResults ==
    {YamlError, YamlValue(PyNone), YamlValue(PyStr("k")), YamlValue(PyList(1))}
    \cup YamlDicts

\* What yaml.safe_load may answer for the header of this text, out of the
\* results the run draws from.  The line "k: v" stands for any YAML text; a
\* header of blank and comment lines only is an empty document and loads as
\* None.
SafeLoadOutcomes(text, results) ==
    IF ~ReachesYaml(text) THEN {NotLoaded}
    ELSE IF ~Contains(frontmatter_text(text), "k: v") THEN {YamlValue(PyNone)}
    ELSE results

-----------------------------------------------------------------------------
(* SpecFrontmatter: validate_frontmatter applied to a manifest text.       *)

InitFrontmatter ==
    /\ pc = "validate_frontmatter"
    /\ content \in ShortTexts
    /\ directory_name \in {"a", "My_Skill"}
    /\ loaded = NotLoaded
    /\ result = NoResult
    /\ name = PyNone
    /\ UnusedDescription /\ UnusedTree /\ UnusedMain

CallValidateFrontmatter ==
    /\ pc = "validate_frontmatter"
    /\ \E y \in SafeLoadOutcomes(content, YamlResults) :
           /\ loaded' = y
           /\ result' = validate_frontmatter(content, directory_name, y)
    /\ pc' = "returned"
    /\ UNCHANGED <<name, directory_name, description, content, skill_path,
                   fs, validate_only, exit_status, archive>>

NextFrontmatter == CallValidateFrontmatter

SpecFrontmatter == InitFrontmatter /\ [][NextFrontmatter]_vars

\* C10: for every header that decodes to a mapping, whatever the types of
\* the values under name and description, validate_frontmatter returns a
\* list of findings and never raises.
C10_ReturnsNormally ==
    (pc = "returned" /\ loaded.kind = "dict") => result.raised = "none"

\* The rules of C7 on a present, non-empty field, and the finding of each.
NameOf(y) == Get(y.d.name)
DescriptionOf(y) == Get(y.d.description)

ViolatedRules(y, dirname) ==
    (IF Truthy(NameOf(y)) /\ NameOf(y).t = "str" /\ Len(NameOf(y).s) > 64
     THEN {"name must be 64 characters or less"} ELSE {})
    \cup (IF Truthy(NameOf(y)) /\ ~(NameOf(y).t = "str" /\ FullMatch(NameOf(y).s))
          THEN {GrammarMessage} ELSE {})
    \cup (IF Truthy(NameOf(y)) /\ NameOf(y) # PyStr(dirname)
          THEN {"name must match directory name"} ELSE {})
    \cup (IF ~Truthy(NameOf(y)) THEN {"name field is required"} ELSE {})
    \cup (IF ~Truthy(DescriptionOf(y)) THEN {"description field is required"} ELSE {})
    \cup (IF DescriptionOf(y).t = "str" /\ Len(DescriptionOf(y).s) > 1024
          THEN {"description must be 1024 characters or less"} ELSE {})
    \cup (IF DescriptionOf(y).t = "str" /\ Len(DescriptionOf(y).s) \in 1..49
          THEN {ShortMessage} ELSE {})
    \cup (IF DescriptionOf(y).t = "str" /\ Contains(Lower(DescriptionOf(y).s), "todo")
          THEN {"description contains TODO placeholder"} ELSE {})
    \cup (IF y.d.compatibility # Absent /\ StrLen(y.d.compatibility) > 500
          THEN {"compatibility must be 500 characters or less"} ELSE {})

\* C7: field validation reports everything: for every decoded header, the
\* finding of each violated rule is emitted, whatever an earlier rule found.
\* Stated for the rules a present, non-empty field violates and for the
\* required-field rules (an empty field is answered by its required-field
\* finding alone).
C7_ReportEverything ==
    (pc = "returned" /\ loaded.kind = "dict")
        => ViolatedRules(loaded, directory_name) \subseteq Messages(result)

-----------------------------------------------------------------------------
(* SpecSkill: validate_skill applied to a skill directory.                 *)

ManifestFile == Entry(<<"SKILL.md">>, "file", FALSE)
ManifestDir == Entry(<<"SKILL.md">>, "dir", TRUE)
Readme == Entry(<<"README.md">>, "file", FALSE)
Changelog == Entry(<<"CHANGELOG.md">>, "file", FALSE)
ScriptsDir == Entry(<<"scripts">>, "dir", TRUE)
ScriptsFile == Entry(<<"scripts">>, "file", FALSE)
ScriptA == Entry(<<"scripts", "a.py">>, "file", FALSE)
ScriptB == Entry(<<"scripts", "b.py">>, "file", TRUE)
ReferencesFile == Entry(<<"references">>, "file", FALSE)
ReferencesDir == Entry(<<"references">>, "dir", TRUE)
Reference == Entry(<<"references", "REFERENCE.md">>, "file", FALSE)

ScriptsOptions == {{}, {ScriptsFile}, {ScriptsDir}, {ScriptsDir, ScriptA},
                   {ScriptsDir, ScriptB}, {ScriptsDir, ScriptA, ScriptB}}

SkillTrees ==
    {m \cup r \cup f \cup sc : m \in {{}, {ManifestFile}},
                               r \in {{}, {Readme}, {Readme, Changelog}},
                               f \in {{}, {ReferencesFile}},
                               sc \in ScriptsOptions}
    \cup {{ManifestDir}}

\* A text of `total` newlines that starts with head, then tail
LongText(head, total, tail) ==
    head \o Rep("b\n", total - (SplitCount(head) - 1)) \o tail

LongTexts ==
    {LongText(h, n, t) : h \in {"---\nk: v\n---\n", "k: v\n"},
                         n \in (LineLimit - MaxPad)..(LineLimit + MaxPad),
                         t \in {"", "b"}}

SkillYamlResults ==
    {YamlError, YamlValue(PyNone), YamlValue(PyList(1)),
     YamlDict(PyStr("a"), PyStr(GoodDescription), Absent),
     YamlDict(PyStr("My_Skill"), PyStr("todo"), Absent),
     YamlDict(PyInt(123), PyStr(GoodDescription), Absent),
     YamlDict(PyStr(""), PyStr(""), PyStr(Rep("x", CompatibilityLimit + 1)))}

SkillPaths ==
    {[parts |-> <<"/", "work", "a">>, kind |-> "dir"],
     [parts |-> <<"/", "work", "My_Skill">>, kind |-> "dir"]}

InitSkill ==
    /\ pc = "validate_skill"
    /\ skill_path \in SkillPaths
    /\ fs \in SkillTrees
    /\ content \in (IF ManifestFile \in fs THEN ShortTexts \cup LongTexts ELSE {""})
    /\ loaded = NotLoaded
    /\ result = NoResult
    /\ UnusedName /\ UnusedDescription /\ UnusedMain

\* The header is decoded only when validate_skill gets as far as yaml.safe_load
YamlOutcomes(path, tree, text, results) ==
    IF path.kind = "dir" /\ ManifestFile \in tree
    THEN SafeLoadOutcomes(text, results)
    ELSE {NotLoaded}

CallValidateSkill ==
    /\ pc = "validate_skill"
    /\ \E y \in YamlOutcomes(skill_path, fs, content, SkillYamlResults) :
           /\ loaded' = y
           /\ result' = validate_skill(skill_path, fs, content, y)
    /\ pc' = "returned"
    /\ UNCHANGED <<name, directory_name, description, content, skill_path,
                   fs, validate_only, exit_status, archive>>

NextSkill == CallValidateSkill

SpecSkill == InitSkill /\ [][NextSkill]_vars

RequiredManifest == ValidationError("SKILL.md file is required", "error")
LineCountMessage == "SKILL.md should be under 500 lines"

\* The number of findings the tree checks owe for this tree
StructuralProblems(tree) ==
    Cardinality({i \in 1..Len(disallowed) : ExistsAtRoot(tree, disallowed[i])})
    + Cardinality({i \in 1..Len(resource_dirs) :
                       /\ ExistsAtRoot(tree, resource_dirs[i])
                       /\ ~IsDirAtRoot(tree, resource_dirs[i])})
    + (IF ExistsAtRoot(tree, "scripts") THEN Cardinality(NonExecutableScripts(tree)) ELSE 0)

MissingManifest ==
    pc = "returned" /\ skill_path.kind = "dir" /\ ~ExistsAtRoot(fs, "SKILL.md")

\* C3 as stated: with no SKILL.md in the directory the whole report of
\* validate_skill is the single finding "SKILL.md file is required",
\* whatever else the directory holds.
C3_Original ==
    MissingManifest => result = Returned(<<RequiredManifest>>)

\* C3 amended: with no SKILL.md in the directory, "SKILL.md file is
\* required" is the only finding of the manifest checks and the first of the
\* report; the tree checks still run and each of their findings follows it.
C3_MissingManifest ==
    MissingManifest
        => /\ result.raised = "none"
           /\ result.errors[1] = RequiredManifest
           /\ Len(result.errors) = 1 + StructuralProblems(fs)
           /\ ExistsAtRoot(fs, "README.md")
                  => "'README.md' should not be included in a skill" \in Messages(result)
           /\ (ExistsAtRoot(fs, "scripts") /\ ~IsDirAtRoot(fs, "scripts"))
                  => "'scripts' must be a directory, not a file" \in Messages(result)
           /\ ScriptA \in fs => "Script 'a.py' is not executable" \in Messages(result)

C3_Witness ==
    /\ MissingManifest
    /\ Readme \in fs
    /\ ScriptA \in fs
    /\ Len(result.errors) = 3

\* Lines of a text, each newline ending one and an unterminated rest counting
LineCount(text) ==
    Cardinality({i \in 1..Len(text) : Char(text, i) = "\n"})
    + (IF Len(text) > 0 /\ Char(text, Len(text)) # "\n" THEN 1 ELSE 0)

\* C9: the line-count warning is emitted if and only if the manifest has
\* more than 500 lines; 500 newline-terminated lines give no warning.
C9_LineCountWarning ==
    (pc = "returned" /\ skill_path.kind = "dir" /\ ManifestFile \in fs
        /\ result.raised = "none")
        => ((LineCountMessage \in Messages(result)) <=> (LineCount(content) > 500))

\* A closing line: after the first line, a line of "---" and blanks only
HasClosingLine(text) ==
    \E i \in 2..Len(text) :
        /\ Char(text, i - 1) = "\n"
        /\ i + 2 <= Len(text)
        /\ SubSeq(text, i, i + 2) = "---"
        /\ \E j \in (i + 2)..Len(text) :
               /\ j = Len(text) \/ Char(text, j + 1) = "\n"
               /\ \A k \in (i + 3)..j : Char(text, k) \in {" ", "\t"}

MalformedHeader(text, y) ==
    \/ ~StartsWith(text, "---")
    \/ ~HasClosingLine(text)
    \/ y.kind \in {"YAMLError", "value"}

HeaderMessages ==
    {"SKILL.md must start with YAML frontmatter (---)",
     "SKILL.md frontmatter must be closed with ---",
     "Invalid YAML in frontmatter",
     "Frontmatter must be a YAML dictionary"}

\* The findings validate_skill_md adds for the text as a whole
BodyMessages ==
    {LineCountMessage, "SKILL.md contains TODO placeholders that should be filled in"}

\* The last n elements of s
Suffix(s, n) == SubSeq(s, Len(s) - n + 1, Len(s))

\* C4: for a manifest with a malformed header validate_frontmatter returns
\* exactly one fatal finding, a header finding, and no field finding; the
\* tree checks still run and their findings end the report.
C4_MalformedHeader ==
    (pc = "returned" /\ skill_path.kind = "dir" /\ ManifestFile \in fs
        /\ MalformedHeader(content, loaded))
        => LET fm == validate_frontmatter(content, PathName(skill_path), loaded)
           IN /\ fm.raised = "none"
              /\ Len(fm.errors) = 1
              /\ fm.errors[1].severity = "error"
              /\ fm.errors[1].message \in HeaderMessages
              /\ result.raised = "none"
              /\ result.errors[1] = fm.errors[1]
              /\ Len(result.errors) >= 1 + StructuralProblems(fs)
              /\ Suffix(result.errors, StructuralProblems(fs)) = validate_structure(fs)
              /\ \A i \in 2..(Len(result.errors) - StructuralProblems(fs)) :
                     result.errors[i].message \in BodyMessages

C4_Witness ==
    /\ pc = "returned"
    /\ ManifestFile \in fs
    /\ HasClosingLine(content)
    /\ loaded.kind = "value"
    /\ Readme \in fs
    /\ ScriptA \in fs
    /\ Len(result.errors) >= 3

-----------------------------------------------------------------------------
(* SpecPackage: package_skill applied to a skill directory.                *)

GitDir == Entry(<<".git">>, "dir", TRUE)
GitConfig == Entry(<<".git", "config">>, "file", FALSE)
EnvFile == Entry(<<".env">>, "file", FALSE)
CacheDir == Entry(<<"__pycache__">>, "dir", TRUE)
CacheFile == Entry(<<"__pycache__", "a.pyc">>, "file", FALSE)
NestedCacheDir == Entry(<<"scripts", "__pycache__">>, "dir", TRUE)
NestedCacheFile == Entry(<<"scripts", "__pycache__", "a.pyc">>, "file", FALSE)
KeepFile == Entry(<<"references", ".keep">>, "file", FALSE)
DottedFile == Entry(<<"a.b">>, "file", FALSE)
CacheLikeFile == Entry(<<"__pycache__x">>, "file", FALSE)

PackageGroups ==
    <<{ManifestFile},
      {ScriptsDir, ScriptB},
      {GitDir, GitConfig},
      {EnvFile},
      {CacheDir, CacheFile},
      {ScriptsDir, NestedCacheDir, NestedCacheFile},
      {ReferencesDir, Reference},
      {ReferencesDir, KeepFile},
      {DottedFile},
      {CacheLikeFile}>>

PackageTrees ==
    {UNION {PackageGroups[i] : i \in picked} : picked \in SUBSET (1..Len(PackageGroups))}

PackageParents ==
    {<<"/", "work">>, <<"/", "home", "u", ".claude", "skills">>,
     <<"/", "srv", "__pycache__">>, <<"/", "srv", "a.b">>}

PackagePaths ==
    {[parts |-> Append(parent, dirname), kind |-> "dir"] :
         parent \in PackageParents, dirname \in {"my-skill", "a"}}

InitPackage ==
    /\ pc = "package_skill"
    /\ skill_path \in PackagePaths
    /\ fs \in PackageTrees
    /\ archive = NoArchive
    /\ validate_only = FALSE /\ exit_status = "running"
    /\ result = NoResult
    /\ UnusedName /\ UnusedDescription /\ UnusedManifest

CallPackageSkill ==
    /\ pc = "package_skill"
    /\ archive' = package_skill(skill_path, fs)
    /\ pc' = "returned"
    /\ UNCHANGED <<name, directory_name, description, content, loaded, skill_path,
                   fs, validate_only, result, exit_status>>

NextPackage == CallPackageSkill

SpecPackage == InitPackage /\ [][NextPackage]_vars

\* A segment that hides a file: it starts with '.' or is the cache directory
HidingSegment(seg) == Char(seg, 1) = "." \/ seg = "__pycache__"

\* The path of an entry from the package directory downward
FromPackage(path, e) == <<path.parts[Len(path.parts)]>> \o e.path

\* C2: wherever the package directory is, the archive holds exactly the
\* regular files under it none of whose segments from the package directory
\* downward starts with '.' or equals '__pycache__', each stored under its
\* path relative to the package directory's parent.
C2_ArchiveMembers ==
    pc = "returned"
        => archive.members =
               {FromPackage(skill_path, e) :
                    e \in {f \in fs : /\ f.kind = "file"
                                      /\ \A i \in 1..Len(FromPackage(skill_path, f)) :
                                             ~HidingSegment(FromPackage(skill_path, f)[i])}}

-----------------------------------------------------------------------------
(* Spec: main, the validate-and-package command.                           *)

MainPaths ==
    {[parts |-> <<"/", "work", "a">>, kind |-> "dir"],
     [parts |-> <<"/", "work", "My_Skill">>, kind |-> "dir"],
     [parts |-> <<"/", "home", "u", ".claude", "skills", "a">>, kind |-> "dir"],
     [parts |-> <<"/", "work", "a">>, kind |-> "missing"],
     [parts |-> <<"/", "work", "a">>, kind |-> "file"]}

MainTrees ==
    {{}, {Readme}, {ManifestDir},
     {ManifestFile},
     {ManifestFile, Readme},
     {ManifestFile, ScriptsDir, ScriptA},
     {ManifestFile, ScriptsDir, ScriptB, EnvFile, CacheDir, CacheFile},
     {ManifestFile, ScriptsFile, GitDir, GitConfig}}

MainTexts ==
    {"---\nk: v\n---\n", "---\nk: v\n---\n# TODO\n", "k: v\n", "---\nk: v\n",
     LongText("---\nk: v\n---\n", LineLimit, "")}

MainYamlResults ==
    SkillYamlResults
    \cup {YamlDict(PyStr("a"), PyStr("does things"), PyStr("python3")),
          YamlDict(PyStr("My_Skill"), PyStr(GoodDescription), Absent),
          YamlDict(PyStr("a"), PyList(1), Absent)}

Init ==
    /\ pc = "main"
    /\ skill_path \in MainPaths
    /\ fs \in (IF skill_path.kind = "dir" THEN MainTrees ELSE {{}})
    /\ content \in (IF ManifestFile \in fs THEN MainTexts ELSE {""})
    /\ validate_only \in BOOLEAN
    /\ loaded = NotLoaded
    /\ result = NoResult
    /\ exit_status = "running"
    /\ archive = NoArchive
    /\ UnusedName /\ UnusedDescription

\* [e for e in errors if e.severity == "error"]
critical_errors(errors) == SelectSeq(errors, LAMBDA e : e.severity = "error")
\* [e for e in errors if e.severity == "warning"]
warnings(errors) == SelectSeq(errors, LAMBDA e : e.severity = "warning")

\* errors = validate_skill(skill_path)
Validate ==
    /\ pc = "main"
    /\ \E y \in YamlOutcomes(skill_path, fs, content, MainYamlResults) :
           /\ loaded' = y
           /\ result' = validate_skill(skill_path, fs, content, y)
    /\ pc' = "validated"
    /\ UNCHANGED <<name, directory_name, description, content, skill_path,
                   fs, validate_only, exit_status, archive>>

\* an exception of validate_skill is not caught: traceback, exit status 1
Uncaught ==
    /\ pc = "validated"
    /\ result.raised # "none"
    /\ exit_status' = 1
    /\ pc' = "exited"
    /\ UNCHANGED <<name, directory_name, description, content, loaded, skill_path,
                   fs, validate_only, result, archive>>

\* if critical_errors: sys.exit(1)
ExitFailed ==
    /\ pc = "validated"
    /\ result.raised = "none"
    /\ critical_errors(result.errors) # <<>>
    /\ exit_status' = 1
    /\ pc' = "exited"
    /\ UNCHANGED <<name, directory_name, description, content, loaded, skill_path,
                   fs, validate_only, result, archive>>

\* if args.validate_only: return
ReturnValidateOnly ==
    /\ pc = "validated"
    /\ result.raised = "none"
    /\ critical_errors(result.errors) = <<>>
    /\ validate_only
    /\ exit_status' = 0
    /\ pc' = "exited"
    /\ UNCHANGED <<name, directory_name, description, content, loaded, skill_path,
                   fs, validate_only, result, archive>>

\* output_file = package_skill(skill_path, output_dir)
Package ==
    /\ pc = "validated"
    /\ result.raised = "none"
    /\ critical_errors(result.errors) = <<>>
    /\ ~validate_only
    /\ archive' = package_skill(skill_path, fs)
    /\ exit_status' = 0
    /\ pc' = "exited"
    /\ UNCHANGED <<name, directory_name, description, content, loaded, skill_path,
                   fs, validate_only, result>>

Next == Validate \/ Uncaught \/ ExitFailed \/ ReturnValidateOnly \/ Package

Spec == Init /\ [][Next]_vars

\* validate_skill returned at least one finding of severity "error"
ReturnedAnError(r) ==
    r.raised = "none" /\ \E i \in 1..Len(r.errors) : r.errors[i].severity = "error"

\* C1: main exits non-zero if and only if validate_skill returned an error
\* finding; an archive is written only with no error finding and without
\* --validate-only; warnings neither change the status nor stop packaging.
C1_ExitStatus ==
    pc = "exited"
        => /\ (exit_status # 0) <=> ReturnedAnError(result)
           /\ archive # NoArchive => (~ReturnedAnError(result) /\ ~validate_only)
           /\ (result.raised = "none" /\ ~ReturnedAnError(result) /\ ~validate_only)
                  => (archive # NoArchive /\ exit_status = 0)

MismatchMessage == "name must match directory name"

ScenarioB ==
    /\ pc = "exited"
    /\ skill_path.kind = "dir"
    /\ PathName(skill_path) = "My_Skill"
    /\ ManifestFile \in fs
    /\ loaded.kind = "dict"
    /\ loaded.d.name = PyStr("My_Skill")

\* C6 as stated: in scenario B the name checks yield two fatal findings, the
\* grammar violation and the name/directory mismatch; exit status non-zero,
\* no archive.
C6_Original ==
    ScenarioB
        => /\ Len(validate_skill_name(loaded.d.name, PathName(skill_path)).errors) = 2
           /\ result.raised = "none"
                  => (CountOf(result, GrammarMessage) = 1 /\ CountOf(result, MismatchMessage) = 1)
           /\ exit_status # 0
           /\ archive = NoArchive

\* C6 amended: in scenario B the name checks yield one fatal finding, the
\* grammar violation; the name equals the directory name, so there is no
\* mismatch finding; exit status non-zero, no archive.
C6_ScenarioB ==
    ScenarioB
        => /\ validate_skill_name(loaded.d.name, PathName(skill_path))
                  = Returned(<<ValidationError(GrammarMessage, "error")>>)
           /\ result.raised = "none"
                  => (CountOf(result, GrammarMessage) = 1 /\ CountOf(result, MismatchMessage) = 0)
           /\ exit_status # 0
           /\ archive = NoArchive

C6_Witness ==
    /\ ScenarioB
    /\ result.raised = "none"
    /\ Len(critical_errors(result.errors)) = 1
    /\ exit_status = 1

====
